---------------------------- MODULE Spec2Model ----------------------------
(***************************************************************************)
(* Coverage pipeline of the live constellation simulator                   *)
(* (src/animated-coverage-LEO.py): generate_orbits_3d ->                   *)
(* compute_voronoi_spherical -> compute_area_weighted, run once per frame  *)
(* on the Taichi fields points_3d, closest_site, site_area, lat_weights.   *)
(*                                                                         *)
(* Arithmetic is fixed point.  Angles are whole ticks, QuarterTurn ticks   *)
(* to 90 degrees; sines are the entries of SinTable, scaled by One.  A     *)
(* coordinate of a unit vector is a product of two sines and carries the   *)
(* scale One*One; a dot product carries One^4.  An f32 NaN is a value      *)
(* with nan = TRUE, and every ordered comparison with it is false.         *)
(***************************************************************************)
EXTENDS Integers, FiniteSets, Sequences, TLC

\* ----------------------------------------------------------------- bounds
\* Grid of the model (the source allocates 1100 x 550).
PLOT_WIDTH == 3
PLOT_HEIGHT == 2
\* Largest satellite count and plane count a frame is given.
MaxSats == 3
MaxPlanes == 2
\* Frames computed in one run.
MaxFrames == 2
\* Frames computed in a run that leaves the controls untouched.
HeldFrames == 61
\* Entries of the colour table (the source allocates 512).
LutSize == 8

\* Capacity of points_3d and site_area: always above the largest count, as
\* in the source (3000 against a slider maximum of 2000).
MAX_POINTS == MaxSats + 1

\* ------------------------------------------------------------ fixed point
\* sin(0), sin(15), ..., sin(90 degrees), scaled by 100.
SinTable == <<0, 26, 50, 71, 87, 97, 100>>
QuarterTurn == Len(SinTable) - 1
HalfTurn == 2 * QuarterTurn
FullTurn == 4 * QuarterTurn
One == SinTable[Len(SinTable)]

\* ti.sin / ti.cos on an angle in ticks.
SinOfTick ==
    [m \in 0..(FullTurn - 1) |->
        IF m <= QuarterTurn THEN SinTable[m + 1]
        ELSE IF m <= HalfTurn THEN SinTable[HalfTurn - m + 1]
        ELSE IF m <= HalfTurn + QuarterTurn THEN 0 - SinTable[m - HalfTurn + 1]
        ELSE 0 - SinTable[FullTurn - m + 1]]

Sin(t) == SinOfTick[t % FullTurn]

Cos(t) == Sin(t + QuarterTurn)

Abs(n) == IF n < 0 THEN 0 - n ELSE n

\* ti.asin of a value scaled by One*One: the tick in [-90, 90] degrees whose
\* sine is nearest (the one nearer 0 of two equally near).
RECURSIVE AsinFrom(_, _, _)
AsinFrom(s, t, best) ==
    IF t > QuarterTurn THEN best
    ELSE LET err == Abs(Sin(t) * One - s)
             best_err == Abs(Sin(best) * One - s)
         IN  IF err < best_err \/ (err = best_err /\ Abs(t) < Abs(best))
             THEN AsinFrom(s, t + 1, t)
             ELSE AsinFrom(s, t + 1, best)

Asin(s) == AsinFrom(s, 0 - QuarterTurn, 0)

\* ti.atan2(y, x), both on one scale: the tick in (-180, 180] degrees whose
\* direction is nearest to (x, y) (the one nearer 0 of two equally near);
\* atan2(0, 0) = 0.
RECURSIVE Atan2From(_, _, _, _)
Atan2From(y, x, t, best) ==
    IF t > HalfTurn THEN best
    ELSE LET proj == x * Cos(t) + y * Sin(t)
             best_proj == x * Cos(best) + y * Sin(best)
         IN  IF proj > best_proj \/ (proj = best_proj /\ Abs(t) < Abs(best))
             THEN Atan2From(y, x, t + 1, t)
             ELSE Atan2From(y, x, t + 1, best)

Atan2(y, x) == IF x = 0 /\ y = 0 THEN 0 ELSE Atan2From(y, x, 1 - HalfTurn, 0)

\* ti.Vector([x, y, z]) of finite components, and the vector a NaN angle
\* produces.
Vec(x, y, z) == [nan |-> FALSE, x |-> x, y |-> y, z |-> z]
NaNVec == [nan |-> TRUE, x |-> 0, y |-> 0, z |-> 0]

\* A float: finite v, or NaN.
Num(v) == [nan |-> FALSE, v |-> v]
NaN == [nan |-> TRUE, v |-> 0]

\* pixel_vec.dot(points_3d[k]).
Dot(a, b) ==
    IF a.nan \/ b.nan THEN NaN
    ELSE Num(a.x * b.x + a.y * b.y + a.z * b.z)

\* a > b on floats: false when either side is NaN.
FGt(a, b) == ~a.nan /\ ~b.nan /\ a.v > b.v

\* lon/lat -> unit vector, as both kernels compute it.
UnitVec(lat, lon) == Vec(Cos(lat) * Cos(lon), Cos(lat) * Sin(lon), Sin(lat) * One)

\* ------------------------------------------------------------------ state
VARIABLES
    pc,              \* stage of main's loop body the program is at
    frames,          \* frames completed so far
    inclination_deg, \* s_inc.val of the frame, in ticks
    num_sats,        \* int(s_sats.val)
    planes_in,       \* int(s_planes.val), before the clamp
    num_planes,      \* num_planes handed to generate_orbits_3d
    time_val,        \* time accumulator, in ticks
    rounding,        \* error of this run's float arithmetic in a full turn
    points_3d,       \* field of MAX_POINTS site vectors
    written,         \* indices generate_orbits_3d wrote in this frame
    closest_site,    \* field PLOT_WIDTH x PLOT_HEIGHT of site indices
    site_area,       \* field of MAX_POINTS accumulated weights
    zero_todo,       \* iterations of the zeroing loop not yet run
    add_todo,        \* iterations of the accumulation loop not yet run
    area_start,      \* site_area as the accumulation loop found it
    smooth_min,      \* state.smooth_min
    smooth_max,      \* state.smooth_max
    t_min,           \* 2nd percentile of the frame's areas, or the fallback
    t_max,           \* 98th percentile of the frame's areas, or the fallback
    beam,            \* s_beam.val of the frame
    render_min,      \* min_area handed to render_frame
    render_max,      \* max_area handed to render_frame
    opacity,         \* s_opacity.val of the frame, scaled by One
    show_walls,      \* int(cb_walls.checked)
    show_dots,       \* int(cb_dots.checked)
    oob,             \* what this launch of render_frame reads out of bounds
    lut_index,       \* lut_idx of every pixel in this launch
    is_edge,         \* is_edge of every pixel in this launch
    screen_pixels,   \* field PLOT_WIDTH x PLOT_HEIGHT of colours
    running,         \* main's running
    is_playing,      \* main's is_playing
    events,          \* how many events of pygame.event.get() are not yet handled
    presses,         \* presses of the play button handled since the start
    speed,           \* s_speed.val, in units of 0.05
    dragging,        \* s_speed.dragging
    scroll_offset,   \* main's scroll_offset
    ui_elements      \* the other sliders and the checkboxes of ui_elements

\* What the smoothing stage of main reads and writes.
smoother == <<smooth_min, smooth_max, t_min, t_max, beam, render_min, render_max>>

\* What render_frame reads and writes besides the pipeline's fields.
compositor == <<opacity, show_walls, show_dots, oob, lut_index, is_edge,
                screen_pixels>>

\* What the event loop and the time step of main read and write.
player == <<running, is_playing, events, presses, speed, dragging,
            scroll_offset, ui_elements>>

vars == <<pc, frames, inclination_deg, num_sats, planes_in, num_planes, time_val,
          rounding,
          points_3d, written, closest_site, site_area, zero_todo, add_todo,
          area_start, smoother, compositor, player>>

Sites == 0..(MAX_POINTS - 1)
Pixels == (0..(PLOT_WIDTH - 1)) \X (0..(PLOT_HEIGHT - 1))

\* Inclinations and time offsets a frame may be given, in ticks.
Inclinations == {0, QuarterTurn}
TimeOffsets == {0, QuarterTurn}

\* ----------------------------------------------------------- the kernels
\* Phase offset between planes, plane_idx * 0.5 rad: 0.5 rad is 1.9 ticks.
PhaseOffset == 2

\* lon = u * 2 PI - PI and lat = (0.5 - v) * PI of a pixel column / row.
PixelLon(x) == (x * FullTurn) \div PLOT_WIDTH - HalfTurn
PixelLat(y) == QuarterTurn - (y * HalfTurn) \div PLOT_HEIGHT

\* init_lat_weights: lat_weights[y] = cos(lat), written once at start-up.
lat_weights(y) == Cos(PixelLat(y))

\* Faulty variant: the loop runs over whole planes only, range(num_planes * sats_per_plane).
WholePlaneIndices(total_sats, planes) ==
    0..(planes * (total_sats \div planes) - 1)

\* Faulty variant: the loop stops one satellite short, range(total_sats - 1).
AllButLastIndex(total_sats, planes) == 0..(total_sats - 2)

\* The loop range of generate_orbits_3d.
OrbitIndices(total_sats, planes) == 0..(total_sats - 1)

\* Faulty variant: no phase offset between the planes.
AnomalyInPhase(i, total_sats, planes, time_offset) ==
    LET sats_per_plane == total_sats \div planes
        sat_idx_in_plane == i \div planes
    IN  IF sats_per_plane = 0 THEN NaN
        ELSE Num((sat_idx_in_plane * FullTurn) \div sats_per_plane + time_offset)

\* anomaly of satellite i; sat_idx_in_plane / float(0) is not a number.
Anomaly(i, total_sats, planes, time_offset) ==
    LET sats_per_plane == total_sats \div planes
        plane_idx == i % planes
        sat_idx_in_plane == i \div planes
    IN  IF sats_per_plane = 0 THEN NaN
        ELSE Num((sat_idx_in_plane * FullTurn) \div sats_per_plane
                 + plane_idx * PhaseOffset + time_offset)

\* (sat_idx_in_plane / float(sats_per_plane)) * 2.0 * PI is a full turn for
\* the satellites left over after the whole planes.  2.0 * PI is not 2 pi
\* in floats and the sum is rounded, so sin and cos of the anomaly are
\* those of the anomaly less the turn, or off in the last place: the
\* errors a run may show in the last place of the vector.
Roundings == {0, 1}

\* The vector v as the float arithmetic leaves it for satellite i.
Rounded(v, i, total_sats, planes, err) ==
    IF i \div planes >= total_sats \div planes
    THEN [v EXCEPT !.z = @ + err]
    ELSE v

\* The body of the loop of generate_orbits_3d: the vector stored at i.
SatPosition(i, inc, total_sats, planes, time_offset, err) ==
    LET plane_idx == i % planes
        raan == (plane_idx * FullTurn) \div planes
        anomaly == Anomaly(i, total_sats, planes, time_offset)
    IN  IF anomaly.nan THEN NaNVec
        ELSE LET sin_lat == Sin(inc) * Sin(anomaly.v)
                 lat == Asin(sin_lat)
                 y_coord == Cos(inc) * Sin(anomaly.v)
                 x_coord == Cos(anomaly.v) * One
                 lon == Atan2(y_coord, x_coord) + raan
             IN  Rounded(UnitVec(lat, lon), i, total_sats, planes, err)

\* for i in range(total_sats): points_3d[i] = ..., from index i on.
RECURSIVE GenerateFrom(_, _, _, _, _, _, _)
GenerateFrom(pts, i, inc, total_sats, planes, time_offset, err) ==
    IF i >= MAX_POINTS THEN pts
    ELSE GenerateFrom(
            IF i \in OrbitIndices(total_sats, planes)
            THEN [pts EXCEPT ![i] = SatPosition(i, inc, total_sats, planes,
                                                time_offset, err)]
            ELSE pts,
            i + 1, inc, total_sats, planes, time_offset, err)

\* generate_orbits_3d as a whole.
GeneratedPoints(pts, inc, total_sats, planes, time_offset, err) ==
    GenerateFrom(pts, 0, inc, total_sats, planes, time_offset, err)

\* compute_voronoi_spherical: the pixel's unit vector.
PixelVec(x, y) == UnitVec(PixelLat(y), PixelLon(x))

\* max_dot = -1.0 and closest_idx = -1 before the scan.
InitMaxDot == Num(0 - One * One * One * One)
InitClosest == 0 - 1

\* One step of the scan: does site k replace the best so far?
Closer(dot, max_dot) == FGt(dot, max_dot)

\* for k in range(total_pts): the scan from site k on.
RECURSIVE ScanSites(_, _, _, _, _, _)
ScanSites(pts, pixel_vec, k, total_pts, max_dot, closest_idx) ==
    IF k >= total_pts THEN closest_idx
    ELSE LET dot == Dot(pixel_vec, pts[k])
         IN  IF Closer(dot, max_dot)
             THEN ScanSites(pts, pixel_vec, k + 1, total_pts, dot, k)
             ELSE ScanSites(pts, pixel_vec, k + 1, total_pts, max_dot, closest_idx)

\* compute_voronoi_spherical as a whole.
VoronoiGrid(pts, total_pts) ==
    [p \in Pixels |->
        ScanSites(pts, PixelVec(p[1], p[2]), 0, total_pts, InitMaxDot, InitClosest)]

\* Faulty variant: the entry is left as it is.
KeepEntry(table, i) == table

\* site_area[i] = 0.0
ZeroEntry(table, i) == [table EXCEPT ![i] = 0]

\* Faulty variant: the zeroing loop starts at entry 1, range(1, total_pts).
RECURSIVE ZeroFromSecond(_, _, _)
ZeroFromSecond(table, i, total_pts) ==
    IF i + 1 >= total_pts THEN table
    ELSE ZeroFromSecond([table EXCEPT ![i + 1] = 0], i + 1, total_pts)

\* for i in range(total_pts): site_area[i] = 0.0
RECURSIVE ZeroFrom(_, _, _)
ZeroFrom(table, i, total_pts) ==
    IF i >= total_pts THEN table
    ELSE ZeroFrom(ZeroEntry(table, i), i + 1, total_pts)

\* Faulty variant: an unsynchronised site_area[idx] += w whose read of the entry
\* came before the other workers' writes.
LostUpdateAdd(table, grid, p) ==
    LET idx == grid[p]
    IN  IF idx \in Sites THEN [table EXCEPT ![idx] = area_start[idx] + lat_weights(p[2])]
        ELSE table

\* ti.atomic_add(site_area[idx], lat_weights[y]) of one pixel.  Taichi does
\* not check the index: with idx = -1 the address lies before entry 0,
\* outside the MAX_POINTS entries of the field, and no entry of the table
\* takes the weight.
AtomicAdd(table, grid, p) ==
    LET idx == grid[p]
    IN  IF idx \in Sites THEN [table EXCEPT ![idx] = @ + lat_weights(p[2])]
        ELSE table

\* The pixels in the order of a sequential sweep of closest_site.
PixelAt(n) == <<n \div PLOT_HEIGHT, n % PLOT_HEIGHT>>

\* for x, y in closest_site: the accumulation loop run sequentially from
\* pixel number n on.
RECURSIVE AccumulateFrom(_, _, _)
AccumulateFrom(table, grid, n) ==
    IF n >= PLOT_WIDTH * PLOT_HEIGHT THEN table
    ELSE AccumulateFrom(AtomicAdd(table, grid, PixelAt(n)), grid, n + 1)

\* Faulty variant: the plane count is passed on as given.
NoClamp(p) == p

\* if num_planes < 1: num_planes = 1
ClampPlanes(p) == IF p < 1 THEN 1 ELSE p

\* ---------------------------------------------------------- the smoother
\* Areas are sums of lat_weights and carry the scale One.  The smoothed
\* range is kept Fine times finer: SmoothOne is the float 1.0.  Halving is
\* exact on floats and 0.1 * d is rounded; here every value of the range is
\* a multiple of Ulp, so that halving is exact, and 0.1 * d is rounded
\* toward zero to a multiple of Ulp.
Fine == 10 * One
SmoothOne == One * Fine
Ulp == 2

\* SmoothingState.__init__: smooth_min = 0.0, smooth_max = 100.0
InitSmoothMin == 0
InitSmoothMax == 100 * SmoothOne

\* Values of s_beam.val a frame may be given (the slider spans 0.1 .. 3.0).
BeamScales == {1, 2}

\* One value put in its place in an ascending sequence.
InsertArea(seq, v) ==
    LET k == Cardinality({i \in 1..Len(seq) : seq[i] <= v})
    IN  SubSeq(seq, 1, k) \o <<v>> \o SubSeq(seq, k + 1, Len(seq))

\* raw_areas = site_area.to_numpy()[:num_sats], in the ascending order
\* np.percentile puts it in.
RECURSIVE SortedAreas(_, _)
SortedAreas(table, n) ==
    IF n <= 0 THEN <<>>
    ELSE InsertArea(SortedAreas(table, n - 1), table[n - 1])

\* np.percentile(raw_areas, q): linear interpolation between the two
\* entries around position q/100 * (n - 1) of the sorted areas.
Percentile(sorted, q) ==
    LET pos == q * (Len(sorted) - 1)
        lo == pos \div 100
        frac == pos % 100
        hi == IF frac = 0 THEN lo ELSE lo + 1
    IN  sorted[lo + 1] * Fine
        + (sorted[hi + 1] - sorted[lo + 1]) * frac * (Fine \div 100)

\* Faulty variant: no fallback, the percentiles are taken of the whole table.
WholeTableTarget(table, n) ==
    [min |-> Percentile(SortedAreas(table, MAX_POINTS), 2),
     max |-> Percentile(SortedAreas(table, MAX_POINTS), 98)]

\* t_min, t_max of the frame: the percentiles, or 0, 1 when there is no site.
TargetRange(table, n) ==
    IF n > 0
    THEN LET sorted == SortedAreas(table, n)
         IN  [min |-> Percentile(sorted, 2), max |-> Percentile(sorted, 98)]
    ELSE [min |-> 0, max |-> SmoothOne]

\* Faulty variant: d * 0.2, rounded toward zero.
Fifth(d) ==
    IF d >= 0 THEN Ulp * (d \div (5 * Ulp))
    ELSE 0 - Ulp * ((0 - d) \div (5 * Ulp))

\* d * 0.1, rounded toward zero.
Tenth(d) ==
    IF d >= 0 THEN Ulp * (d \div (10 * Ulp))
    ELSE 0 - Ulp * ((0 - d) \div (10 * Ulp))

\* Faulty variant: the step is taken away from the target, s -= (t - s) * 0.1.
StepAway(s, t) == s - Tenth(t - s)

\* state.smooth_x += (t_x - state.smooth_x) * 0.1
SmoothStep(s, t) == s + Tenth(t - s)

\* Faulty variant: the range is scaled from its lower end, not its middle.
RenderRangeFromMin(lo, hi, b) == [min |-> lo, max |-> lo + (hi - lo) * b]

\* mid_area +- half_range * s_beam.val
RenderRange(lo, hi, b) ==
    LET mid_area == (lo + hi) \div 2
        half_range == (hi - lo) \div 2
        scaled_half_range == half_range * b
    IN  [min |-> mid_area - scaled_half_range,
         max |-> mid_area + scaled_half_range]

\* -------------------------------------------------------- the compositor
\* Colours are ti.Vector([r, g, b]).  A channel of the colour table and of
\* the texture carries the scale One; a channel of the blended colour, a
\* product with the opacity, carries One*One.
ChannelOne == One * One

\* The last index of the colour table, 511 in the source.
LutLast == LutSize - 1

\* generate_turbo_colormap: colormap_lut[i], t = float(i) / 511.0 in
\* hundredths.
colormap_lut(i) ==
    LET t == (i * One) \div LutLast
    IN  IF t < 15 THEN Vec(0, 0, 50 + (50 * t) \div 15)
        ELSE IF t < 35 THEN Vec(0, 5 * (t - 15), One)
        ELSE IF t < 55 THEN Vec(0, One, One - 5 * (t - 35))
        ELSE IF t < 75 THEN Vec(5 * (t - 55), One, 0)
        ELSE IF t < 90 THEN Vec(One, One - (One * (t - 75)) \div 15, 0)
        ELSE Vec(One - 5 * (t - 90), 0, 0)

\* load_texture: texture_map[x, y], the image main hands over, channels in
\* 0 .. 1: here black, white and the fill colour (0, 10, 30) / 255 of the
\* fallback surface, pixel after pixel.
texture_map(p) ==
    LET n == (p[1] * PLOT_HEIGHT + p[2]) % 3
    IN  IF n = 0 THEN Vec(0, 0, 0)
        ELSE IF n = 1 THEN Vec(One, One, One)
        ELSE Vec(0, 4, 12)

\* render_frame does not check idx: with idx = -1 site_area[idx] and
\* points_3d[idx] lie before the fields.  The memory there holds zeros, or
\* a bit pattern that is no number; ti.min / ti.max given no number return
\* their other operand on one backend and no number on another.
ZeroedMemory == [area |-> Num(0), point |-> Vec(0, 0, 0), clamped |-> Num(0)]
OutOfBoundsReads ==
    {ZeroedMemory,
     [area |-> NaN, point |-> NaNVec, clamped |-> Num(1)],
     [area |-> NaN, point |-> NaNVec, clamped |-> NaN]}

\* area = site_area[idx]
AreaOf(table, idx, mem) == IF idx \in Sites THEN Num(table[idx]) ELSE mem.area

\* sat_vec = points_3d[idx]
PointOf(pts, idx, mem) == IF idx \in Sites THEN pts[idx] ELSE mem.point

\* Faulty variant: the divisor is used as it is.
KeepDenom(min_area, max_area) == max_area - min_area

\* denom = max_area - min_area; if denom == 0: denom = 1.0
Denom(min_area, max_area) ==
    IF max_area - min_area = 0 THEN SmoothOne ELSE max_area - min_area

\* Faulty variant: only the upper clamp, ti.min(norm, 1.0).
ClampAbove(num, den) ==
    IF den > 0 /\ num >= den THEN [nan |-> FALSE, num |-> 1, den |-> 1]
    ELSE IF den < 0 /\ num <= den THEN [nan |-> FALSE, num |-> 1, den |-> 1]
    ELSE IF den < 0 THEN [nan |-> FALSE, num |-> 0 - num, den |-> 0 - den]
    ELSE [nan |-> FALSE, num |-> num, den |-> den]

\* norm = ti.max(0.0, ti.min(num / den, 1.0)), as a fraction num / den
\* with den > 0.  x / 0.0 is an infinity, and 0.0 / 0.0 no number.
Clamp(num, den) ==
    IF den = 0
    THEN IF num = 0 THEN [nan |-> TRUE, num |-> 0, den |-> 0]
         ELSE IF num > 0 THEN [nan |-> FALSE, num |-> 1, den |-> 1]
         ELSE [nan |-> FALSE, num |-> 0, den |-> 1]
    ELSE IF den > 0
    THEN IF num <= 0 THEN [nan |-> FALSE, num |-> 0, den |-> 1]
         ELSE IF num >= den THEN [nan |-> FALSE, num |-> 1, den |-> 1]
         ELSE [nan |-> FALSE, num |-> num, den |-> den]
    ELSE IF num >= 0 THEN [nan |-> FALSE, num |-> 0, den |-> 1]
         ELSE IF num <= den THEN [nan |-> FALSE, num |-> 1, den |-> 1]
         ELSE [nan |-> FALSE, num |-> 0 - num, den |-> 0 - den]

\* norm of one pixel: (area - min_area) / denom, clamped.
Norm(area, min_area, max_area, mem) ==
    IF area.nan
    THEN IF mem.clamped.nan THEN [nan |-> TRUE, num |-> 0, den |-> 0]
         ELSE [nan |-> FALSE, num |-> mem.clamped.v, den |-> 1]
    ELSE Clamp(area.v * Fine - min_area, Denom(min_area, max_area))

\* lut_idx = int(norm * 511); the conversion of no number is any int, here
\* one past the table.
LutIndex(norm) ==
    IF norm.nan THEN LutSize ELSE (norm.num * LutLast) \div norm.den

\* heatmap_color = colormap_lut[lut_idx]; out of bounds it is no colour.
HeatOf(lut_idx) ==
    IF lut_idx \in 0..LutLast THEN colormap_lut(lut_idx) ELSE NaNVec

\* final_color = base_color * (1.0 - opacity) + heatmap_color * opacity
Blend(base, heat, op) ==
    IF base.nan \/ heat.nan THEN NaNVec
    ELSE Vec(base.x * (One - op) + heat.x * op,
             base.y * (One - op) + heat.y * op,
             base.z * (One - op) + heat.z * op)

\* Faulty variant: the right and bottom neighbours are read at the grid's
\* last column and row too, where the read wraps to the first.
IsEdgeWrapped(grid, p) ==
    LET idx == grid[p]
    IN  \/ grid[<<(p[1] + 1) % PLOT_WIDTH, p[2]>>] # idx
        \/ grid[<<p[1], (p[2] + 1) % PLOT_HEIGHT>>] # idx

\* Faulty variant: no pixel of the last column or the last row is flagged.
IsEdgeInside(grid, p) ==
    LET idx == grid[p]
    IN  /\ p[1] < PLOT_WIDTH - 1
        /\ p[2] < PLOT_HEIGHT - 1
        /\ \/ grid[<<p[1] + 1, p[2]>>] # idx
           \/ grid[<<p[1], p[2] + 1>>] # idx

\* is_edge: the right or the bottom neighbour holds another index.
IsEdge(grid, p) ==
    LET idx == grid[p]
    IN  \/ p[1] < PLOT_WIDTH - 1 /\ grid[<<p[1] + 1, p[2]>>] # idx
        \/ p[2] < PLOT_HEIGHT - 1 /\ grid[<<p[1], p[2] + 1>>] # idx

\* 0.9997, on the scale of a dot product.
MarkerThreshold == Num(9997 * One * One)

\* pix_vec.dot(sat_vec) > 0.9997
IsMarker(pts, grid, p, mem) ==
    FGt(Dot(PixelVec(p[1], p[2]), PointOf(pts, grid[p], mem)), MarkerThreshold)

WallColour == Vec(0, 0, 0)
DotColour == Vec(ChannelOne, ChannelOne, ChannelOne)

\* Faulty variant: the walls are drawn after the dots, over them.
WallsOverDots(pts, grid, table, p, min_area, max_area, op, walls, dots, mem) ==
    LET norm == Norm(AreaOf(table, grid[p], mem), min_area, max_area, mem)
        blended == Blend(texture_map(p), HeatOf(LutIndex(norm)), op)
        dotted == IF dots = 1 /\ IsMarker(pts, grid, p, mem) THEN DotColour
                  ELSE blended
    IN  IF walls = 1 /\ IsEdge(grid, p) THEN WallColour ELSE dotted

\* The body of render_frame's loop: the colour stored at pixel p.
PixelColour(pts, grid, table, p, min_area, max_area, op, walls, dots, mem) ==
    LET norm == Norm(AreaOf(table, grid[p], mem), min_area, max_area, mem)
        blended == Blend(texture_map(p), HeatOf(LutIndex(norm)), op)
        walled == IF walls = 1 /\ IsEdge(grid, p) THEN WallColour ELSE blended
    IN  IF dots = 1 /\ IsMarker(pts, grid, p, mem) THEN DotColour ELSE walled

\* ----------------------------------------------------------- the controls
\* Events a frame may find queued.
MaxEvents == 2

\* pygame.Rect(x, y, w, h).collidepoint(pos)
CollidePoint(rect, pos) ==
    /\ rect.x <= pos[1]
    /\ pos[1] < rect.x + rect.w
    /\ rect.y <= pos[2]
    /\ pos[2] < rect.y + rect.h

\* ui_x = PLOT_WIDTH + 25
ui_x == PLOT_WIDTH + 25

\* btn_play = Button(ui_x, 50, 220, 35, ...)
BtnPlayRect == [x |-> ui_x, y |-> 50, w |-> 220, h |-> 35]

\* s_speed = Slider(ui_x, scroll_start_y + 250, 220, 8, 0.1, 5.0, 1.0, ...):
\* its track, and its least, greatest and first value in units of 0.05.
SpeedRect == [x |-> ui_x, y |-> 350, w |-> 220, h |-> 8]
SpeedMin == 2
SpeedMax == 100
StartSpeed == 20

\* max_scroll = 200, scroll_speed = 20
max_scroll == 200
scroll_speed == 20

\* scroll_offset -= event.y * scroll_speed, kept within 0..max_scroll, when
\* the wheel turns with the mouse in the sidebar.
ScrollAfter(offset, event) ==
    IF event.type = "MOUSEWHEEL" /\ event.pos[1] > PLOT_WIDTH
    THEN LET moved == offset - event.y * scroll_speed
             capped == IF moved < max_scroll THEN moved ELSE max_scroll
         IN  IF 0 > capped THEN 0 ELSE capped
    ELSE offset

\* Where the mouse may be: on the play button, in the sidebar right of it,
\* on the middle of the speed slider's track, and on the plot.
Positions ==
    {<<ui_x + 110, 60>>, <<ui_x + 225, 60>>, <<ui_x + 110, 354>>, <<0, 60>>}

\* The events pygame.event.get() may return.
EventTypes == {"QUIT", "MOUSEBUTTONDOWN", "MOUSEBUTTONUP", "MOUSEMOTION"}
Events == [type : EventTypes, pos : Positions]

\* adjusted_event: an event in the sidebar, moved down by the scroll offset.
AdjustedEvent(event, offset) ==
    IF /\ event.type \in {"MOUSEBUTTONDOWN", "MOUSEBUTTONUP", "MOUSEMOTION"}
       /\ event.pos[1] > PLOT_WIDTH
    THEN [event EXCEPT !.pos = <<event.pos[1], event.pos[2] + offset>>]
    ELSE event

\* Slider.handle_rect for the value val: 20 wide about the value's place on
\* the track, 5 above and below it.
HandleRect(rect, min_val, max_val, val) ==
    [x |-> rect.x + ((val - min_val) * rect.w) \div (max_val - min_val) - 10,
     y |-> rect.y - 5, w |-> 20, h |-> rect.h + 10]

\* Faulty variant: the value at the mouse's x, on the track or off it.
MoveOffTrack(rect, min_val, max_val, mx) ==
    min_val + ((mx - rect.x) * (max_val - min_val)) \div rect.w

\* Slider.move(mx): the value at the mouse's x, kept on the track.
SliderMove(rect, min_val, max_val, mx) ==
    LET x == IF mx < rect.x THEN rect.x
             ELSE IF mx > rect.x + rect.w THEN rect.x + rect.w ELSE mx
    IN  min_val + ((x - rect.x) * (max_val - min_val)) \div rect.w

\* Slider.update(event), on the slider's value and dragging flag.
SliderUpdate(rect, min_val, max_val, slider, event) ==
    IF event.type = "MOUSEBUTTONDOWN"
    THEN IF \/ CollidePoint(HandleRect(rect, min_val, max_val, slider.val),
                            event.pos)
            \/ CollidePoint(rect, event.pos)
         THEN [val |-> SliderMove(rect, min_val, max_val, event.pos[1]),
               dragging |-> TRUE]
         ELSE slider
    ELSE IF event.type = "MOUSEBUTTONUP"
    THEN [slider EXCEPT !.dragging = FALSE]
    ELSE IF event.type = "MOUSEMOTION" /\ slider.dragging
    THEN [slider EXCEPT !.val = SliderMove(rect, min_val, max_val,
                                           event.pos[1])]
    ELSE slider

\* Checkbox.update(event), on the checkbox's checked flag.
CheckboxUpdate(rect, box, event) ==
    IF event.type = "MOUSEBUTTONDOWN" /\ CollidePoint(rect, event.pos)
    THEN [box EXCEPT !.checked = ~box.checked]
    ELSE box

\* Button.update(event): a mouse button has gone down on the button.
ButtonUpdate(rect, event) ==
    event.type = "MOUSEBUTTONDOWN" /\ CollidePoint(rect, event.pos)

\* Faulty variant: is_playing = True.
SetPlaying(playing) == TRUE

\* is_playing = not is_playing
Toggle(playing) == ~playing

\* The time step of one frame, 0.01 * s_speed.val, per unit of speed: one
\* tick of time for each 0.05 of speed.
StepSize == 1

\* Faulty variant: the time step is taken when paused, not when playing.
AdvanceWhenPaused(playing, t, sp) == IF playing THEN t ELSE t + StepSize * sp

\* Faulty variant: the time step is taken whether playing or not.
AlwaysAdvance(playing, t, sp) == t + StepSize * sp

\* if is_playing: time_val += 0.01 * s_speed.val
TimeAfter(playing, t, sp) == IF playing THEN t + StepSize * sp ELSE t

\* s_inc, s_sats and s_planes at the start (53 degrees, 600 and 12 in the
\* source), in ticks and at the model's scale.
StartInclination == 4
StartSats == MaxSats
StartPlanes == MaxPlanes

\* s_sats = Slider(..., 100, 2000, 600, ...), s_planes = Slider(..., 1, 50,
\* 12, ...): the least number of satellites is no less than the greatest
\* number of planes.
MinSats == MaxPlanes
MinPlanes == 1

\* The tracks of the sliders: Slider(ui_x, scroll_start_y + 10, 220, 8, ...)
\* and so on, 60 apart.
SliderRect(y) == [x |-> ui_x, y |-> y, w |-> 220, h |-> 8]
IncRect == SliderRect(110)
SatsRect == SliderRect(170)
PlanesRect == SliderRect(230)
OpacityRect == SliderRect(290)
BeamRect == SliderRect(410)

\* The boxes of the checkboxes: Checkbox(ui_x, scroll_start_y + 370, ...)
\* and so on, 35 apart.
CheckboxRect(y) == [x |-> ui_x, y |-> y, w |-> 20, h |-> 20]
WallsRect == CheckboxRect(470)
DotsRect == CheckboxRect(505)
LinesRect == CheckboxRect(540)

\* s_opacity in hundredths (0.0 to 1.0, first 0.7) and s_beam in tenths
\* (0.1 to 3.0, first 1.0).
OpacityMax == 100
StartOpacity == 70
BeamMin == 1
BeamMax == 30
StartBeam == 10

\* ui_elements but for s_speed, as main constructs them.
StartElements ==
    [s_inc |-> [val |-> StartInclination, dragging |-> FALSE],
     s_sats |-> [val |-> StartSats, dragging |-> FALSE],
     s_planes |-> [val |-> StartPlanes, dragging |-> FALSE],
     s_opacity |-> [val |-> StartOpacity, dragging |-> FALSE],
     s_beam |-> [val |-> StartBeam, dragging |-> FALSE],
     cb_walls |-> [checked |-> TRUE],
     cb_dots |-> [checked |-> TRUE],
     cb_lines |-> [checked |-> TRUE]]

\* for e in ui_elements: e.update(adjusted_event), but for s_speed.
ElementsAfter(elements, event) ==
    [s_inc |-> SliderUpdate(IncRect, 0, QuarterTurn, elements.s_inc, event),
     s_sats |-> SliderUpdate(SatsRect, MinSats, MaxSats, elements.s_sats,
                             event),
     s_planes |-> SliderUpdate(PlanesRect, MinPlanes, MaxPlanes,
                               elements.s_planes, event),
     s_opacity |-> SliderUpdate(OpacityRect, 0, OpacityMax,
                                elements.s_opacity, event),
     s_beam |-> SliderUpdate(BeamRect, BeamMin, BeamMax, elements.s_beam,
                             event),
     cb_walls |-> CheckboxUpdate(WallsRect, elements.cb_walls, event),
     cb_dots |-> CheckboxUpdate(DotsRect, elements.cb_dots, event),
     cb_lines |-> CheckboxUpdate(LinesRect, elements.cb_lines, event)]

\* ----------------------------------------------------------------- steps
\* Taichi fields start zeroed; the play loop has computed nothing yet.
Init ==
    /\ pc = "idle"
    /\ frames = 0
    /\ rounding \in Roundings
    /\ inclination_deg = 0
    /\ num_sats = 0
    /\ planes_in = 1
    /\ num_planes = 1
    /\ time_val = 0
    /\ points_3d = [i \in Sites |-> Vec(0, 0, 0)]
    /\ written = {}
    /\ closest_site = [p \in Pixels |-> 0]
    /\ site_area = [i \in Sites |-> 0]
    /\ zero_todo = {}
    /\ add_todo = {}
    /\ area_start = [i \in Sites |-> 0]
    /\ smooth_min = InitSmoothMin
    /\ smooth_max = InitSmoothMax
    /\ t_min = 0
    /\ t_max = 0
    /\ beam = 1
    /\ render_min = 0
    /\ render_max = 0
    /\ opacity = 0
    /\ show_walls = 0
    /\ show_dots = 0
    /\ oob = ZeroedMemory
    /\ lut_index = [p \in Pixels |-> 0]
    /\ is_edge = [p \in Pixels |-> FALSE]
    /\ screen_pixels = [p \in Pixels |-> Vec(0, 0, 0)]
    /\ running = TRUE
    /\ is_playing = FALSE
    /\ events = 0
    /\ presses = 0
    /\ speed = StartSpeed
    /\ dragging = FALSE
    /\ scroll_offset = 0
    /\ ui_elements = StartElements

\* main, "GPU Compute": the frame reads its parameters and clamps the
\* plane count.
BeginFrame(inc, sats, planes, t) ==
    /\ pc = "idle"
    /\ frames < MaxFrames
    /\ inclination_deg' = inc
    /\ num_sats' = sats
    /\ planes_in' = planes
    /\ num_planes' = ClampPlanes(planes)
    /\ time_val' = t
    /\ pc' = "orbit"
    /\ UNCHANGED <<frames, points_3d, written, closest_site, site_area,
                   zero_todo, add_todo, area_start>>
    /\ UNCHANGED <<smoother, compositor, player>>
    /\ UNCHANGED rounding

\* generate_orbits_3d(s_inc.val, num_sats, num_planes, time_val)
GenerateOrbits ==
    /\ pc = "orbit"
    /\ points_3d' = GeneratedPoints(points_3d, inclination_deg, num_sats,
                                    num_planes, time_val, rounding)
    /\ written' = OrbitIndices(num_sats, num_planes)
    /\ pc' = "voronoi"
    /\ UNCHANGED <<frames, inclination_deg, num_sats, planes_in, num_planes,
                   time_val, closest_site, site_area, zero_todo, add_todo,
                   area_start>>
    /\ UNCHANGED <<smoother, compositor, player>>
    /\ UNCHANGED rounding

\* compute_voronoi_spherical(num_sats); compute_area_weighted is launched.
ComputeVoronoi ==
    /\ pc = "voronoi"
    /\ closest_site' = VoronoiGrid(points_3d, num_sats)
    /\ zero_todo' = 0..(num_sats - 1)
    /\ pc' = "zero"
    /\ UNCHANGED <<frames, inclination_deg, num_sats, planes_in, num_planes,
                   time_val, points_3d, written, site_area, add_todo,
                   area_start>>
    /\ UNCHANGED <<smoother, compositor, player>>
    /\ UNCHANGED rounding

\* compute_area_weighted, first loop, as one pass.
ZeroPass ==
    /\ pc = "zero"
    /\ zero_todo = 0..(num_sats - 1)
    /\ site_area' = ZeroFrom(site_area, 0, num_sats)
    /\ area_start' = site_area'
    /\ zero_todo' = {}
    /\ add_todo' = Pixels
    /\ pc' = "accum"
    /\ UNCHANGED <<frames, inclination_deg, num_sats, planes_in, num_planes,
                   time_val, points_3d, written, closest_site>>
    /\ UNCHANGED <<smoother, compositor, player>>
    /\ UNCHANGED rounding

\* compute_area_weighted, second loop, as one pass.
AccumulatePass ==
    /\ pc = "accum"
    /\ add_todo = Pixels
    /\ site_area' = AccumulateFrom(site_area, closest_site, 0)
    /\ add_todo' = {}
    /\ pc' = "done"
    /\ UNCHANGED <<frames, inclination_deg, num_sats, planes_in, num_planes,
                   time_val, points_3d, written, closest_site, zero_todo,
                   area_start>>
    /\ UNCHANGED <<smoother, compositor, player>>
    /\ UNCHANGED rounding

\* main, "Smoothing" and "Apply beam size scale": the target range of the
\* frame, one smoothing step, and the render range.
SmoothRange(b) ==
    /\ pc = "done"
    /\ LET target == TargetRange(site_area, num_sats)
       IN  /\ t_min' = target.min
           /\ t_max' = target.max
    /\ smooth_min' = SmoothStep(smooth_min, t_min')
    /\ smooth_max' = SmoothStep(smooth_max, t_max')
    /\ beam' = b
    /\ LET range == RenderRange(smooth_min', smooth_max', b)
       IN  /\ render_min' = range.min
           /\ render_max' = range.max
    /\ pc' = "render"
    /\ UNCHANGED <<frames, inclination_deg, num_sats, planes_in, num_planes,
                   time_val, points_3d, written, closest_site, site_area,
                   zero_todo, add_todo, area_start>>
    /\ UNCHANGED <<compositor, player>>
    /\ UNCHANGED rounding

\* Values of s_opacity.val a frame may be given, scaled by One.
Opacities == {0, 70, One}

\* render_frame(render_min, render_max, num_sats, s_opacity.val,
\*              int(cb_walls.checked), int(cb_dots.checked))
RenderFrame(op, walls, dots, mem) ==
    /\ pc = "render"
    /\ opacity' = op
    /\ show_walls' = walls
    /\ show_dots' = dots
    /\ oob' = mem
    /\ lut_index' =
            [p \in Pixels |->
                LutIndex(Norm(AreaOf(site_area, closest_site[p], mem),
                              render_min, render_max, mem))]
    /\ is_edge' = [p \in Pixels |-> walls = 1 /\ IsEdge(closest_site, p)]
    /\ screen_pixels' =
            [p \in Pixels |->
                PixelColour(points_3d, closest_site, site_area, p,
                            render_min, render_max, op, walls, dots, mem)]
    /\ pc' = "shown"
    /\ UNCHANGED <<frames, inclination_deg, num_sats, planes_in, num_planes,
                   time_val, points_3d, written, closest_site, site_area,
                   zero_todo, add_todo, area_start, smoother, player>>
    /\ UNCHANGED rounding

\* The memory render_frame reads out of bounds matters in a launch whose
\* grid holds an index that is no site.
MemoryOf(grid) ==
    IF \E p \in Pixels : grid[p] \notin Sites THEN OutOfBoundsReads
    ELSE {ZeroedMemory}

Render ==
    \E op \in Opacities, walls \in {0, 1}, dots \in {0, 1},
       mem \in MemoryOf(closest_site) :
        RenderFrame(op, walls, dots, mem)

\* The frame's tables have been consumed; the loop comes round.
EndFrame ==
    /\ pc = "done"
    /\ frames' = frames + 1
    /\ inclination_deg' = 0
    /\ num_sats' = 0
    /\ planes_in' = 1
    /\ num_planes' = 1
    /\ time_val' = 0
    /\ written' = {}
    /\ pc' = "idle"
    /\ UNCHANGED <<points_3d, closest_site, site_area, zero_todo, add_todo,
                   area_start>>
    /\ UNCHANGED <<smoother, compositor, player>>
    /\ UNCHANGED rounding

NewFrame ==
    \E inc \in Inclinations, sats \in 0..MaxSats,
       planes \in 0..MaxPlanes, t \in TimeOffsets :
        BeginFrame(inc, sats, planes, t)

Next ==
    \/ NewFrame
    \/ GenerateOrbits
    \/ ComputeVoronoi
    \/ ZeroPass
    \/ AccumulatePass
    \/ EndFrame

Spec == Init /\ [][Next]_vars

\* ------------------------------------------------- the loops, per worker
\* One iteration of the zeroing loop, on any worker.
ZeroWorker(i) ==
    /\ pc = "zero"
    /\ i \in zero_todo
    /\ site_area' = ZeroEntry(site_area, i)
    /\ zero_todo' = zero_todo \ {i}
    /\ UNCHANGED <<pc, rounding, frames, inclination_deg, num_sats, planes_in,
                   num_planes,
                   time_val, points_3d, written, closest_site, add_todo,
                   area_start>>
    /\ UNCHANGED <<smoother, compositor, player>>

\* Faulty variant: the second loop is offloaded while the zeroing loop runs.
ZeroJoinEarly ==
    /\ pc = "zero"
    /\ area_start' = site_area
    /\ add_todo' = Pixels
    /\ pc' = "accum"
    /\ UNCHANGED <<frames, inclination_deg, num_sats, planes_in, num_planes,
                   time_val, points_3d, written, closest_site, site_area,
                   zero_todo>>
    /\ UNCHANGED <<smoother, compositor, player>>
    /\ UNCHANGED rounding

\* The zeroing loop has run every iteration: the second loop is offloaded.
ZeroJoin ==
    /\ pc = "zero"
    /\ zero_todo = {}
    /\ area_start' = site_area
    /\ add_todo' = Pixels
    /\ pc' = "accum"
    /\ UNCHANGED <<frames, inclination_deg, num_sats, planes_in, num_planes,
                   time_val, points_3d, written, closest_site, site_area,
                   zero_todo>>
    /\ UNCHANGED <<smoother, compositor, player>>
    /\ UNCHANGED rounding

\* One iteration of the accumulation loop, on any worker.
AddWorker(p) ==
    /\ pc = "accum"
    /\ p \in add_todo
    /\ site_area' = AtomicAdd(site_area, closest_site, p)
    /\ add_todo' = add_todo \ {p}
    /\ UNCHANGED <<pc, rounding, frames, inclination_deg, num_sats, planes_in,
                   num_planes,
                   time_val, points_3d, written, closest_site, zero_todo,
                   area_start>>
    /\ UNCHANGED <<smoother, compositor, player>>

\* Every pixel has been added: the kernel returns.
AccumJoin ==
    /\ pc = "accum"
    /\ add_todo = {}
    /\ pc' = "done"
    /\ UNCHANGED <<frames, inclination_deg, num_sats, planes_in, num_planes,
                   time_val, points_3d, written, closest_site, site_area,
                   zero_todo, add_todo, area_start>>
    /\ UNCHANGED <<smoother, compositor, player>>
    /\ UNCHANGED rounding

FirstFrame == frames = 0 /\ NewFrame

WorkersNext ==
    \/ FirstFrame
    \/ GenerateOrbits
    \/ ComputeVoronoi
    \/ \E i \in Sites : ZeroWorker(i)
    \/ ZeroJoin
    \/ \E p \in Pixels : AddWorker(p)
    \/ AccumJoin
    \/ EndFrame

SpecWorkers == Init /\ [][WorkersNext]_vars

\* ------------------------------------------ the compositor, on any range
\* Ends of the ranges render_frame may be called with.
RangeEnds == {0, SmoothOne \div 2, SmoothOne, 3 * SmoothOne}

\* render_frame is about to be called with min_area = lo, max_area = hi.
RangeGiven(lo, hi) ==
    /\ pc = "done"
    /\ render_min' = lo
    /\ render_max' = hi
    /\ pc' = "render"
    /\ UNCHANGED <<frames, inclination_deg, num_sats, planes_in, num_planes,
                   time_val, points_3d, written, closest_site, site_area,
                   zero_todo, add_todo, area_start, smooth_min, smooth_max,
                   t_min, t_max, beam, compositor, player>>
    /\ UNCHANGED rounding

AnyRange == \E lo, hi \in RangeEnds : lo <= hi /\ RangeGiven(lo, hi)

RenderNext ==
    \/ FirstFrame
    \/ GenerateOrbits
    \/ ComputeVoronoi
    \/ ZeroPass
    \/ AccumulatePass
    \/ AnyRange
    \/ Render

SpecRender == Init /\ [][RenderNext]_vars

\* ---------------------------------------- frames with controls untouched
\* pygame.display.flip(), clock.tick(60), and the loop comes round with no
\* event: the sliders of the constellation are where they were.
HeldFrame ==
    /\ pc = "shown"
    /\ frames + 1 < HeldFrames
    /\ frames' = frames + 1
    /\ written' = {}
    /\ t_min' = 0
    /\ t_max' = 0
    /\ beam' = 1
    /\ render_min' = 0
    /\ render_max' = 0
    /\ opacity' = 0
    /\ show_walls' = 0
    /\ show_dots' = 0
    /\ oob' = ZeroedMemory
    /\ lut_index' = [p \in Pixels |-> 0]
    /\ is_edge' = [p \in Pixels |-> FALSE]
    /\ screen_pixels' = [p \in Pixels |-> Vec(0, 0, 0)]
    /\ pc' = "orbit"
    /\ UNCHANGED <<inclination_deg, num_sats, planes_in, num_planes, time_val,
                   points_3d, closest_site, site_area, zero_todo, add_todo,
                   area_start, smooth_min, smooth_max, player>>
    /\ UNCHANGED rounding

Smooth == \E b \in BeamScales : SmoothRange(b)

HeldNext ==
    \/ FirstFrame
    \/ GenerateOrbits
    \/ ComputeVoronoi
    \/ ZeroPass
    \/ AccumulatePass
    \/ Smooth
    \/ Render
    \/ HeldFrame

SpecHeld == Init /\ [][HeldNext]_vars

\* --------------------------------------- frames of four sites, one a plane
\* generate_orbits_3d(inc, 4, 4, t): four satellites in four planes, at any
\* inclination from 0 to 90 degrees.
FourPlanes ==
    \E inc \in 0..QuarterTurn, t \in TimeOffsets : BeginFrame(inc, 4, 4, t)

FourPlanesNext ==
    \/ FourPlanes
    \/ GenerateOrbits
    \/ ComputeVoronoi
    \/ ZeroPass
    \/ AccumulatePass
    \/ EndFrame

SpecFourPlanes == Init /\ [][FourPlanesNext]_vars

\* ------------------------------------------------- the loop, with events
\* while running: ... for event in pygame.event.get(): the queue holds
\* queued events, whatever they are.
PollEvents(queued) ==
    /\ pc = "idle"
    /\ frames < MaxFrames
    /\ events' = queued
    /\ pc' = "events"
    /\ UNCHANGED <<frames, inclination_deg, num_sats, planes_in, num_planes,
                   time_val, points_3d, written, closest_site, site_area,
                   zero_todo, add_todo, area_start, smoother, compositor,
                   running, is_playing, presses, speed, dragging,
                   scroll_offset, ui_elements>>
    /\ UNCHANGED rounding

\* The body of the event loop, for the next event of the queue.
EventLoopBody(event) ==
    /\ pc = "events"
    /\ events > 0
    /\ running' = IF event.type = "QUIT" THEN FALSE ELSE running
    /\ is_playing' = IF ButtonUpdate(BtnPlayRect, event)
                     THEN Toggle(is_playing) ELSE is_playing
    /\ presses' = IF event.type = "MOUSEBUTTONDOWN"
                     /\ CollidePoint(BtnPlayRect, event.pos)
                  THEN presses + 1 ELSE presses
    /\ scroll_offset' = ScrollAfter(scroll_offset, event)
    /\ LET adjusted_event == AdjustedEvent(event, scroll_offset')
           slider == SliderUpdate(SpeedRect, SpeedMin, SpeedMax,
                                  [val |-> speed, dragging |-> dragging],
                                  adjusted_event)
       IN  /\ speed' = slider.val
           /\ dragging' = slider.dragging
           /\ ui_elements' = ElementsAfter(ui_elements, adjusted_event)
    /\ events' = events - 1
    /\ UNCHANGED <<pc, rounding, frames, inclination_deg, num_sats, planes_in,
                   num_planes,
                   time_val, points_3d, written, closest_site, site_area,
                   zero_todo, add_todo, area_start, smoother, compositor>>

\* main, "Time Logic", once the event loop is through.
TimeStep ==
    /\ pc = "events"
    /\ events = 0
    /\ time_val' = TimeAfter(is_playing, time_val, speed)
    /\ pc' = "compute"
    /\ UNCHANGED <<frames, inclination_deg, num_sats, planes_in, num_planes,
                   points_3d, written, closest_site, site_area, zero_todo,
                   add_todo, area_start, smoother, compositor, player>>
    /\ UNCHANGED rounding

\* main, "GPU Compute": the sliders are read and the plane count clamped;
\* time_val is the accumulator.
ReadSliders ==
    /\ pc = "compute"
    /\ inclination_deg' = ui_elements.s_inc.val
    /\ num_sats' = ui_elements.s_sats.val
    /\ planes_in' = ui_elements.s_planes.val
    /\ num_planes' = ClampPlanes(ui_elements.s_planes.val)
    /\ pc' = "orbit"
    /\ UNCHANGED <<frames, time_val, points_3d, written, closest_site,
                   site_area, zero_todo, add_todo, area_start, smoother,
                   compositor, player>>
    /\ UNCHANGED rounding

\* Faulty variant: while True.
WhileTrue(run) == "idle"

\* while running: the loop body is entered again, or main leaves the loop.
WhileRunning(run) == IF run THEN "idle" ELSE "quit"

\* pygame.display.flip(), clock.tick(60); while running.
NextLoop ==
    /\ pc = "shown"
    /\ frames' = frames + 1
    /\ inclination_deg' = 0
    /\ num_sats' = 0
    /\ planes_in' = 1
    /\ num_planes' = 1
    /\ written' = {}
    /\ t_min' = 0
    /\ t_max' = 0
    /\ beam' = 1
    /\ render_min' = 0
    /\ render_max' = 0
    /\ opacity' = 0
    /\ show_walls' = 0
    /\ show_dots' = 0
    /\ oob' = ZeroedMemory
    /\ lut_index' = [p \in Pixels |-> 0]
    /\ is_edge' = [p \in Pixels |-> FALSE]
    /\ screen_pixels' = [p \in Pixels |-> Vec(0, 0, 0)]
    /\ pc' = WhileRunning(running)
    /\ UNCHANGED <<time_val, points_3d, closest_site, site_area, zero_todo,
                   add_todo, area_start, smooth_min, smooth_max, player>>
    /\ UNCHANGED rounding

Poll == \E queued \in 0..MaxEvents : PollEvents(queued)

HandleEvent == \E event \in Events : EventLoopBody(event)

MainNext ==
    \/ Poll
    \/ HandleEvent
    \/ TimeStep
    \/ ReadSliders
    \/ GenerateOrbits
    \/ ComputeVoronoi
    \/ ZeroPass
    \/ AccumulatePass
    \/ Smooth
    \/ Render
    \/ NextLoop

SpecMain == Init /\ [][MainNext]_vars

\* ----------------------------- the loop, with quit events and play presses
\* The window is closed, or the mouse pressed on the play button.
QuitOrPress ==
    {event \in Events :
        /\ event.type \in {"QUIT", "MOUSEBUTTONDOWN"}
        /\ CollidePoint(BtnPlayRect, event.pos)}

HandleQuitOrPress == \E event \in QuitOrPress : EventLoopBody(event)

QuitNext ==
    \/ Poll
    \/ HandleQuitOrPress
    \/ TimeStep
    \/ ReadSliders
    \/ GenerateOrbits
    \/ ComputeVoronoi
    \/ ZeroPass
    \/ AccumulatePass
    \/ Smooth
    \/ Render
    \/ NextLoop

\* main is one thread, which runs whenever it can.
SpecQuit == Init /\ [][QuitNext]_vars /\ WF_vars(QuitNext)

\* ------------------------------ the loop, with the wheel and play presses
\* The wheel turns a notch either way with the mouse in the sidebar or on
\* the plot, or a mouse button goes down or up on the play button.
WheelOrPress ==
    [type : {"MOUSEWHEEL"}, pos : {<<ui_x + 110, 70>>, <<0, 60>>},
     y : {0 - 1, 1}]
    \cup [type : {"MOUSEBUTTONDOWN", "MOUSEBUTTONUP"},
          pos : {<<ui_x + 110, 70>>}]

HandleWheelOrPress == \E event \in WheelOrPress : EventLoopBody(event)

ScrollNext ==
    \/ Poll
    \/ HandleWheelOrPress
    \/ TimeStep
    \/ ReadSliders
    \/ GenerateOrbits
    \/ ComputeVoronoi
    \/ ZeroPass
    \/ AccumulatePass
    \/ Smooth
    \/ Render
    \/ NextLoop

SpecScroll == Init /\ [][ScrollNext]_vars

\* ------------------------------------- the loop, with the sliders in use
\* The mouse on the middle of the tracks of s_sats and s_planes, on the
\* plot left of every track and in the sidebar right of every track.
SliderPositions ==
    {<<ui_x + 110, 174>>, <<ui_x + 110, 234>>, <<0, 60>>, <<ui_x + 225, 60>>}

SliderEvents ==
    [type : {"MOUSEBUTTONDOWN", "MOUSEBUTTONUP", "MOUSEMOTION"},
     pos : SliderPositions]

HandleSliderEvent == \E event \in SliderEvents : EventLoopBody(event)

SlidersNext ==
    \/ Poll
    \/ HandleSliderEvent
    \/ TimeStep
    \/ ReadSliders
    \/ GenerateOrbits
    \/ ComputeVoronoi
    \/ ZeroPass
    \/ AccumulatePass
    \/ Smooth
    \/ Render
    \/ NextLoop

SpecSliders == Init /\ [][SlidersNext]_vars

\* ------------------------------- the loop, kernel loops worker by worker
\* pygame.event.get() returns no event.
NoEvents == PollEvents(0)

StagesNext ==
    \/ NoEvents
    \/ TimeStep
    \/ ReadSliders
    \/ GenerateOrbits
    \/ ComputeVoronoi
    \/ \E i \in Sites : ZeroWorker(i)
    \/ ZeroJoin
    \/ \E p \in Pixels : AddWorker(p)
    \/ AccumJoin
    \/ Smooth
    \/ Render
    \/ NextLoop

SpecStages == Init /\ [][StagesNext]_vars

\* ---------------------------------------------------------------- claims
\* What a sequential sweep adds to entry k from pixel number n on.
RECURSIVE WeightInto(_, _)
WeightInto(k, n) ==
    IF n >= PLOT_WIDTH * PLOT_HEIGHT THEN 0
    ELSE LET p == PixelAt(n)
         IN  (IF closest_site[p] = k THEN lat_weights(p[2]) ELSE 0) + WeightInto(k, n + 1)

RECURSIVE SumArea(_)
SumArea(n) == IF n <= 0 THEN 0 ELSE site_area[n - 1] + SumArea(n - 1)

RECURSIVE SumWeights(_)
SumWeights(n) == IF n <= 0 THEN 0 ELSE lat_weights(n - 1) + SumWeights(n - 1)

\* The dot product of pixel p with site k, as the scan computes it.
PixelDot(p, k) == Dot(PixelVec(p[1], p[2]), points_3d[k])

\* C1: in a frame with at least one satellite, once SiteAssigner has run
\* every pixel of the grid holds an index k with 0 <= k < totalSats; no
\* pixel is left at -1.
C1_EveryPixelAssigned ==
    (pc = "zero" /\ num_sats >= 1) =>
        \A p \in Pixels : closest_site[p] \in 0..(num_sats - 1)

\* C2: in a frame with at least one satellite, once AreaAggregator has run
\* the entries of SiteAreaTable below totalSats add up to PLOT_WIDTH times
\* the sum of LatitudeWeightTable.
C2_AreaSumIsWeightSum ==
    (pc = "done" /\ num_sats >= 1) =>
        SumArea(num_sats) = PLOT_WIDTH * SumWeights(PLOT_HEIGHT)

\* C3: the index SiteAssigner writes for a pixel is a site of the frame
\* whose dot product with the pixel no other site exceeds, and every site
\* of lower index has a strictly smaller dot product.
C3_NearestLowestIndex ==
    (pc = "zero" /\ num_sats >= 1) =>
        \A p \in Pixels :
            LET k == closest_site[p]
            IN  /\ k \in 0..(num_sats - 1)
                /\ \A j \in 0..(num_sats - 1) :
                        /\ ~FGt(PixelDot(p, j), PixelDot(p, k))
                        /\ j < k => FGt(PixelDot(p, k), PixelDot(p, j))

\* C4: whatever order the workers run the iterations in, the table the
\* accumulation loop leaves is the table it found plus, for each entry, the
\* weights a sequential sweep of the grid adds to it.
C4_AccumulationIsSequential ==
    pc = "done" =>
        \A k \in Sites : site_area[k] = area_start[k] + WeightInto(k, 0)

\* C4 witness: the loop has finished and two pixels of non-zero weight
\* were added to the same entry.
C4_Witness ==
    /\ pc = "done"
    /\ \E p, q \in Pixels :
        /\ p # q
        /\ closest_site[p] = closest_site[q]
        /\ closest_site[p] \in 0..(num_sats - 1)
        /\ lat_weights(p[2]) > 0
        /\ lat_weights(q[2]) > 0

\* The pipeline run on freshly allocated fields: the grid and the table it
\* leaves.
FreshRun ==
    LET pts == GeneratedPoints([i \in Sites |-> Vec(0, 0, 0)], inclination_deg,
                               num_sats, num_planes, time_val, rounding)
    IN  LET grid == VoronoiGrid(pts, num_sats)
        IN  [grid |-> grid,
             area |-> AccumulateFrom(ZeroFrom([i \in Sites |-> 0], 0, num_sats),
                                     grid, 0)]

\* C5 as stated: the grid and the whole table of a frame are those of the
\* same parameters run with no frame before it.
C5_SameGridAndTable ==
    pc = "done" =>
        LET fresh == FreshRun
        IN  closest_site = fresh.grid /\ site_area = fresh.area

\* C5 amended: the grid, and the entries of the table below totalSats, are
\* those of the same parameters run with no frame before it.
C5_SameGridAndValidEntries ==
    pc = "done" =>
        LET fresh == FreshRun
        IN  /\ closest_site = fresh.grid
            /\ \A k \in 0..(num_sats - 1) : site_area[k] = fresh.area[k]

\* C5 witness: a frame with sites is complete after an earlier frame with
\* more sites, whose weight is still in the table.
C5_Witness ==
    /\ pc = "done"
    /\ frames >= 1
    /\ num_sats >= 1
    /\ \E k \in Sites : k >= num_sats /\ site_area[k] > 0
    /\ \E k \in 0..(num_sats - 1) : site_area[k] > 0

\* C6 as stated: when accumulation starts every entry of the table is zero.
C6_WholeTableZero ==
    (pc = "accum" /\ add_todo = Pixels) =>
        \A k \in Sites : site_area[k] = 0

\* C6 amended: when accumulation starts every entry below totalSats is zero.
C6_ValidEntriesZero ==
    (pc = "accum" /\ add_todo = Pixels) =>
        \A k \in 0..(num_sats - 1) : site_area[k] = 0

\* C6 witness: accumulation starts in a frame with sites while an entry at
\* or above totalSats still holds weight of an earlier frame.
C6_Witness ==
    /\ pc = "accum"
    /\ add_todo = Pixels
    /\ num_sats >= 1
    /\ \E k \in Sites : k >= num_sats /\ site_area[k] > 0

\* C7: OrbitGenerator writes a site vector at every index below totalSats
\* and at no other, totalSats of them, multiple of numPlanes or not.
C7_WritesEveryIndex ==
    pc = "voronoi" =>
        /\ \A i \in Sites : i \in written <=> i < num_sats
        /\ Cardinality(written) = num_sats

\* C7 witness: OrbitGenerator has run with a count that is no multiple of
\* the plane count.
C7_Witness ==
    /\ pc = "voronoi"
    /\ num_sats > num_planes
    /\ num_sats % num_planes # 0

\* C8 as stated: the number of sites produced is
\* numPlanes * (totalSats div numPlanes).
C8_RemainderDropped ==
    pc = "voronoi" =>
        Cardinality(written) = num_planes * (num_sats \div num_planes)

\* C8 amended: the remainder satellites are generated too, at the indices
\* from numPlanes * satsPerPlane up, so the number of sites produced is
\* numPlanes * satsPerPlane + totalSats mod numPlanes.
C8_RemainderGenerated ==
    (pc = "voronoi" /\ num_sats % num_planes # 0) =>
        LET whole == num_planes * (num_sats \div num_planes)
        IN  /\ \A i \in whole..(num_sats - 1) : i \in written
            /\ Cardinality(written) = whole + (num_sats % num_planes)
            /\ Cardinality(written) > whole

\* C8 witness: one satellite is left over after two full planes' worth.
C8_Witness ==
    /\ pc = "voronoi"
    /\ num_sats % num_planes = 1
    /\ num_sats \div num_planes >= 1
    /\ num_planes >= 2

\* C9: every position OrbitGenerator produces is a finite vector.
C9_PositionsFinite ==
    pc = "voronoi" => \A i \in written : ~points_3d[i].nan

\* C10: OrbitGenerator is entered with numPlanes >= 1: a plane count below
\* 1 has been replaced by 1, any other is passed on.
C10_PlanesClamped ==
    pc = "orbit" =>
        /\ num_planes >= 1
        /\ planes_in < 1 => num_planes = 1
        /\ planes_in >= 1 => num_planes = planes_in

\* C10 witness: a frame given a plane count below 1 reaches OrbitGenerator.
C10_Witness ==
    /\ pc = "orbit"
    /\ planes_in < 1
    /\ num_sats >= 1

\* ------------------------------------------------------ claims, smoother
\* One update of a smoothed value s to s2 under the target t: the distance
\* to the target is multiplied by 0.9, exactly where a tenth of it is a
\* value of the arithmetic and to less than one rounding otherwise; s2 is
\* on the same side of the target as s (no overshoot) and no farther from
\* it, and nearer whenever a tenth of the distance is not rounded to 0.
MovesToward(s, s2, t) ==
    LET d == s - t
        d2 == s2 - t
    IN  /\ d >= 0 => (d2 >= 0 /\ d2 <= d)
        /\ d <= 0 => (d2 <= 0 /\ d2 >= d)
        /\ Abs(10 * d2 - 9 * d) < 10 * Ulp
        /\ d % (10 * Ulp) = 0 => 10 * d2 = 9 * d
        /\ Abs(d) >= 10 * Ulp => Abs(d2) < Abs(d)

\* C11: each frame's RangeSmoother update multiplies the distances
\* |smoothMin - targetMin| and |smoothMax - targetMax| by 0.9: the smoothed
\* values move toward the target, never past it and never away from it.
C11_StepTowardTarget ==
    [][(pc = "done" /\ pc' = "render") =>
            /\ MovesToward(smooth_min, smooth_min', t_min')
            /\ MovesToward(smooth_max, smooth_max', t_max')]_vars

\* C11 witness: an update after the first has been made under the target
\* of the frames before it, with both smoothed values still off the target.
C11_Witness ==
    /\ pc = "render"
    /\ frames >= 2
    /\ num_sats >= 2
    /\ Abs(smooth_min - t_min) >= 10 * Ulp
    /\ Abs(smooth_max - t_max) >= 10 * Ulp

\* 1e-3, on the scale of the smoothed range.
Milli == SmoothOne \div 1000

\* C12 as stated: from the 60th frame on under a constant target, smoothMin
\* and smoothMax are each within 1e-3 of the target.
C12_SettledAfterSixty ==
    (pc = "render" /\ frames >= 59) =>
        /\ Abs(smooth_min - t_min) <= Milli
        /\ Abs(smooth_max - t_max) <= Milli

\* C12 amended: after 60 frames under a constant target each distance is
\* 0.9^60, between 0.17 % and 0.18 %, of the distance the program started
\* at (less the roundings of the steps): |0 - targetMin| for smoothMin,
\* |100 - targetMax| for smoothMax.
C12_ShrunkAfterSixty ==
    (pc = "render" /\ frames = 59) =>
        LET d_min == Abs(smooth_min - t_min)
            d_max == Abs(smooth_max - t_max)
            start_min == Abs(InitSmoothMin - t_min)
            start_max == Abs(InitSmoothMax - t_max)
        IN  /\ 17 * start_min <= 10000 * d_min
            /\ 10000 * (d_min - 10 * Ulp) <= 18 * start_min
            /\ 17 * start_max <= 10000 * d_max
            /\ 10000 * (d_max - 10 * Ulp) <= 18 * start_max

\* C12 witness: the 60th update has been made in a run with sites, and
\* smoothMax is still more than 1e-3 off its target.
C12_Witness ==
    /\ pc = "render"
    /\ frames = 59
    /\ num_sats >= 1
    /\ Abs(smooth_max - t_max) > Milli

\* C13 as stated: in a frame with zero sites the render range handed to
\* FrameCompositor is the fallback range 0 .. 1 (about its midpoint scaled
\* by the frame's beam scale), whatever the smoothing state was.
C13_FallbackRenderRange ==
    (pc = "render" /\ num_sats = 0) =>
        LET fixed == RenderRange(0, SmoothOne, beam)
        IN  render_min = fixed.min /\ render_max = fixed.max

\* C13 amended: in a frame with zero sites the target of the smoother is
\* the fallback range 0 .. 1; the render range is the smoothed range, one
\* step nearer the fallback than the frames before left it, scaled by the
\* beam scale.
C13_FallbackTarget ==
    (pc \in {"render", "shown"} /\ num_sats = 0) =>
        LET range == RenderRange(smooth_min, smooth_max, beam)
        IN  /\ t_min = 0
            /\ t_max = SmoothOne
            /\ render_min = range.min
            /\ render_max = range.max

\* C13 witness: a frame with zero sites has been composed after an earlier
\* frame, and its render range is not the fallback range.
C13_Witness ==
    /\ pc = "shown"
    /\ num_sats = 0
    /\ frames >= 1
    /\ beam = 1
    /\ render_max # SmoothOne

\* C26: smoothMin <= smoothMax in every state; and the render range handed
\* to render_frame, for a beam scale of 0 or more, has renderMin <=
\* renderMax and the same midpoint as [smoothMin, smoothMax], and is
\* [smoothMin, smoothMax] itself when the beam scale is 1.
C26_RangesOrdered ==
    /\ smooth_min <= smooth_max
    /\ (pc \in {"render", "shown"} /\ beam >= 0) =>
            /\ render_min <= render_max
            /\ render_min + render_max = smooth_min + smooth_max
            /\ beam = 1 => render_min = smooth_min /\ render_max = smooth_max

\* C26 witness: a later frame is about to be drawn with a beam scale
\* other than 1, over a range wider than the smoothed one, whose ends have
\* both moved since the start.
C26_Witness ==
    /\ pc = "render"
    /\ frames >= 2
    /\ beam = 2
    /\ InitSmoothMin < smooth_min
    /\ smooth_min < smooth_max
    /\ smooth_max < InitSmoothMax
    /\ render_min < smooth_min
    /\ smooth_max < render_max

\* ---------------------------------------------------- claims, compositor
\* norm of pixel p in the launch of render_frame that has just run.
NormAt(p) ==
    Norm(AreaOf(site_area, closest_site[p], oob), render_min, render_max, oob)

\* C14: FrameCompositor never divides by zero: when renderMax - renderMin
\* is 0 the divisor is 1, and the normalised value of every pixel is a
\* number in [0, 1].
C14_NormDefined ==
    pc = "shown" =>
        /\ Denom(render_min, render_max) # 0
        /\ render_max = render_min => Denom(render_min, render_max) = SmoothOne
        /\ \A p \in Pixels :
                LET norm == NormAt(p)
                IN  /\ ~norm.nan
                    /\ norm.den > 0
                    /\ 0 <= norm.num
                    /\ norm.num <= norm.den

\* C15: for every pixel, site area and render range the colour-table index
\* lies in 0 .. LUTsize - 1; the table is never read outside its bounds.
C15_LutIndexInBounds ==
    pc = "shown" => \A p \in Pixels : lut_index[p] \in 0..LutLast

\* A colour whose channels are numbers in [0, 1].
InUnit(colour) ==
    /\ ~colour.nan
    /\ colour.x \in 0..ChannelOne
    /\ colour.y \in 0..ChannelOne
    /\ colour.z \in 0..ChannelOne

\* C16: with texture channels and opacity in [0, 1], every channel of every
\* pixel of the output buffer is in [0, 1], whatever showWalls, showDots
\* and the render range are.
C16_ChannelsInUnit ==
    pc = "shown" => \A p \in Pixels : InUnit(screen_pixels[p])

\* Every pixel of the grid has a site of this frame.
AllAssigned == \A p \in Pixels : closest_site[p] \in 0..(num_sats - 1)

RECURSIVE WeightOfDone(_, _)
WeightOfDone(k, done) ==
    IF done = {} THEN 0
    ELSE LET p == CHOOSE q \in done : TRUE
         IN  (IF closest_site[p] = k THEN lat_weights(p[2]) ELSE 0)
             + WeightOfDone(k, done \ {p})

\* The order in which main goes through the stages of a frame.
StageOrder ==
    {<<"idle", "events">>, <<"events", "compute">>, <<"compute", "orbit">>,
     <<"orbit", "voronoi">>, <<"voronoi", "zero">>, <<"zero", "accum">>,
     <<"accum", "done">>, <<"done", "render">>, <<"render", "shown">>,
     <<"shown", "idle">>, <<"shown", "quit">>}

\* C24: within a frame the stages run in the order OrbitGenerator,
\* SiteAssigner, AreaAggregator, RangeSmoother, FrameCompositor.  Each
\* field is written by its own stage only and is complete when the next
\* stage reads it: the sites are all generated before the grid is computed,
\* the grid is that of the frame's sites before any area is touched, every
\* entry is zeroed before any pixel's weight is added, every weight is
\* added before the smoother reads the table, and the render range is the
\* frame's before the frame is drawn.  The next frame is begun only when
\* the pixel buffer has been produced.
C24_StagesInOrder ==
    [][/\ pc' # pc => <<pc, pc'>> \in StageOrder
       /\ points_3d' # points_3d => pc = "orbit"
       /\ closest_site' # closest_site => pc = "voronoi"
       /\ site_area' # site_area => pc \in {"zero", "accum"}
       /\ <<smooth_min', smooth_max'>> # <<smooth_min, smooth_max>>
            => pc = "done"
       /\ screen_pixels' # screen_pixels => pc \in {"render", "shown"}
       /\ pc = "voronoi" =>
            /\ written = OrbitIndices(num_sats, num_planes)
            /\ points_3d = GeneratedPoints(points_3d, inclination_deg,
                                           num_sats, num_planes, time_val,
                                           rounding)
       /\ pc \in {"zero", "accum", "done"} =>
            closest_site = VoronoiGrid(points_3d, num_sats)
       /\ (pc = "zero" /\ site_area' # site_area) =>
            \E i \in zero_todo :
                /\ site_area' = [site_area EXCEPT ![i] = 0]
                /\ zero_todo' = zero_todo \ {i}
       /\ (pc = "accum" /\ add_todo' # add_todo) =>
            /\ zero_todo = {}
            /\ \A i \in 0..(num_sats - 1) :
                    site_area[i] = WeightOfDone(i, Pixels \ add_todo)
       /\ pc = "done" => zero_todo = {} /\ add_todo = {}
       /\ pc = "render" =>
            /\ t_min = TargetRange(site_area, num_sats).min
            /\ t_max = TargetRange(site_area, num_sats).max
            /\ render_min = RenderRange(smooth_min, smooth_max, beam).min
            /\ render_max = RenderRange(smooth_min, smooth_max, beam).max
       /\ frames' # frames => pc = "shown" /\ frames' = frames + 1
       /\ pc' = "orbit" => pc = "compute"]_vars

\* C24 witness: in the second frame the zeroing loop is through and the
\* accumulation loop part-way, some weight added and some not yet.
C24_Witness ==
    /\ frames = 1
    /\ pc = "accum"
    /\ zero_todo = {}
    /\ add_todo # {}
    /\ add_todo # Pixels
    /\ \E i \in 0..(num_sats - 1) : site_area[i] > 0

\* C25: the quit signal is acted on between frames.  running is cleared by
\* the event loop only and never set again; the frame in which the quit
\* event arrives goes through every stage, in order, and only at its end
\* does main leave the loop, before any new frame is begun; and once the
\* quit event is in, main does come to its end.
C25_QuitBetweenFrames ==
    /\ [][/\ pc' # pc => <<pc, pc'>> \in StageOrder
          /\ running' # running => pc = "events" /\ ~running'
          /\ pc' = "quit" => pc = "shown" /\ ~running
          /\ (pc = "shown" /\ ~running) => pc' = "quit"
          /\ pc' = "idle" => running
          /\ pc = "quit" => pc' = "quit"]_vars
    /\ (~running ~> pc = "quit")

\* C25 witness: a press of the play button was handled and the quit event
\* came in the second frame; that frame was completed, and main has left
\* the loop.
C25_Witness ==
    /\ pc = "quit"
    /\ ~running
    /\ frames = 2
    /\ presses = 1

\* ------------------------------------------------ claims, four polar sites
\* The frame of four satellites in four planes at 90 degrees and time 0,
\* with its tables complete.
PolarFrame ==
    /\ pc = "done"
    /\ num_sats = 4
    /\ planes_in = 4
    /\ inclination_deg = QuarterTurn
    /\ time_val = 0

\* The mirror image of a site in the plane of the equator.
Mirror(v) == [v EXCEPT !.z = 0 - v.z]

TwoRegions ==
    /\ \A p \in Pixels : closest_site[p] \in 0..(num_sats - 1)
    /\ Cardinality({closest_site[p] : p \in Pixels}) = 2

\* The pixels next to p on its right and below it, within the grid.
RightAndBelow(p) ==
    {<<p[1] + 1, p[2]>>, <<p[1], p[2] + 1>>} \cap Pixels

\* p lies on the seam, on its left or upper side: the pixel on its right or
\* the pixel below it belongs to the other region.
OnSeam(p) == \E q \in RightAndBelow(p) : closest_site[q] # closest_site[p]

\* C20: on a grid of two regions drawn with showWalls on, the pixels flagged
\* as edges are exactly the pixels on the left or upper side of the seam, a
\* line one pixel wide: of two neighbours across the seam the left or upper
\* one is flagged, and the other is not flagged on account of it; every
\* flagged pixel gets the wall colour unless a marker is drawn over it.
C20_EdgesAlongSeam ==
    (pc = "shown" /\ show_walls = 1 /\ TwoRegions) =>
        \A p \in Pixels :
            /\ is_edge[p] <=> OnSeam(p)
            /\ (is_edge[p] /\ show_dots = 0) => screen_pixels[p] = WallColour

\* C20 witness: a grid of two regions has been drawn with walls; a pixel on
\* the seam is flagged, and its neighbour across the seam is not.
C20_Witness ==
    /\ pc = "shown"
    /\ show_walls = 1
    /\ show_dots = 0
    /\ TwoRegions
    /\ \E p \in Pixels : \E q \in RightAndBelow(p) :
            /\ closest_site[q] # closest_site[p]
            /\ is_edge[p]
            /\ ~is_edge[q]
            /\ screen_pixels[p] = WallColour

\* C22 as stated: with showWalls on, no pixel of the last column or of the
\* last row is flagged as a boundary pixel, whatever the grid holds.
C22_LastColumnAndRowUnflagged ==
    (pc = "shown" /\ show_walls = 1) =>
        \A p \in Pixels :
            (p[1] = PLOT_WIDTH - 1 \/ p[2] = PLOT_HEIGHT - 1) => ~is_edge[p]

\* C22: with showWalls on, a pixel of the last column is flagged exactly
\* when the pixel below it holds another index, a pixel of the last row
\* exactly when the pixel on its right does, and the pixel that is in both
\* never: no neighbour outside the grid is looked at.
C22_LastColumnAndRowOneNeighbour ==
    (pc = "shown" /\ show_walls = 1) =>
        \A p \in Pixels :
            /\ p[1] = PLOT_WIDTH - 1 =>
                    (is_edge[p] <=>
                        /\ p[2] < PLOT_HEIGHT - 1
                        /\ closest_site[<<p[1], p[2] + 1>>] # closest_site[p])
            /\ p[2] = PLOT_HEIGHT - 1 =>
                    (is_edge[p] <=>
                        /\ p[1] < PLOT_WIDTH - 1
                        /\ closest_site[<<p[1] + 1, p[2]>>] # closest_site[p])

\* C22 witness: a frame drawn with walls in which a pixel of the last
\* column and a pixel of the last row are flagged.
C22_Witness ==
    /\ pc = "shown"
    /\ show_walls = 1
    /\ \E y \in 0..(PLOT_HEIGHT - 1) : is_edge[<<PLOT_WIDTH - 1, y>>]
    /\ \E x \in 0..(PLOT_WIDTH - 1) : is_edge[<<x, PLOT_HEIGHT - 1>>]
    /\ ~is_edge[<<PLOT_WIDTH - 1, PLOT_HEIGHT - 1>>]

\* The pixel lies within the marker threshold of its assigned site.
NearItsSite(p) ==
    LET site == IF closest_site[p] \in Sites THEN points_3d[closest_site[p]]
                ELSE oob.point
        dot == Dot(PixelVec(p[1], p[2]), site)
    IN  ~dot.nan /\ dot.v > MarkerThreshold.v

\* The blended base / heat colour of the pixel.
BlendedAt(p) == Blend(texture_map(p), HeatOf(lut_index[p]), opacity)

\* C23: the overlays in order of priority.  With showDots on a pixel within
\* the marker threshold of its site gets the marker colour, boundary pixel
\* or not; otherwise, with showWalls on, a boundary pixel gets the wall
\* colour; every other pixel gets the blended colour.  An overlay whose
\* flag is off changes no pixel.
C23_OverlayPriority ==
    pc = "shown" =>
        \A p \in Pixels :
            screen_pixels[p] =
                IF show_dots = 1 /\ NearItsSite(p) THEN DotColour
                ELSE IF show_walls = 1 /\ OnSeam(p) THEN WallColour
                ELSE BlendedAt(p)

\* C23 witness: a frame drawn with walls and dots in which a boundary pixel
\* is a marker and has the marker colour, another boundary pixel has the
\* wall colour, and a third pixel has its blended colour, which is neither.
C23_Witness ==
    /\ pc = "shown"
    /\ show_walls = 1
    /\ show_dots = 1
    /\ \E p \in Pixels :
            OnSeam(p) /\ NearItsSite(p) /\ screen_pixels[p] = DotColour
    /\ \E p \in Pixels :
            OnSeam(p) /\ ~NearItsSite(p) /\ screen_pixels[p] = WallColour
    /\ \E p \in Pixels :
            /\ ~OnSeam(p)
            /\ ~NearItsSite(p)
            /\ screen_pixels[p] = BlendedAt(p)
            /\ screen_pixels[p] \notin {DotColour, WallColour}

\* ------------------------------------------------------ claims, controls
\* C17: the play state is Paused or Playing and starts at Paused; every
\* press of the play button flips it and nothing else changes it: it is
\* Playing iff the presses handled so far are odd in number, whether they
\* came in one frame or in several.
C17_PlayingIffOddPresses ==
    /\ is_playing \in BOOLEAN
    /\ is_playing <=> presses % 2 = 1

\* C17 witness: two presses have been handled in the first frame's event
\* loop, and the state is Paused again.
C17_Witness ==
    /\ frames = 0
    /\ pc = "events"
    /\ presses = 2
    /\ ~is_playing

\* C18: the time accumulator changes at the frame's time step only, once a
\* frame: by stepSize * speed, the speed slider's value then, if the state
\* is Playing, and not at all if it is Paused; it never decreases.
C18_TimeStepOnly ==
    [][/\ time_val' >= time_val
       /\ (pc = "events" /\ pc' = "compute")
            => time_val' = (IF is_playing THEN time_val + StepSize * speed
                              ELSE time_val)
       /\ ~(pc = "events" /\ pc' = "compute") => time_val' = time_val
       /\ (pc = "events" /\ pc' = "compute") => events = 0
       /\ pc' = "events" => pc \in {"idle", "events"}]_vars

\* C18 witness: the accumulator has been advanced in one frame, at a speed
\* set on the slider, and left alone, Paused, in the next.
C18_Witness ==
    /\ pc = "compute"
    /\ frames = 1
    /\ ~is_playing
    /\ speed # StartSpeed
    /\ time_val = StepSize * speed


\* C27 as stated: when totalSats is not a multiple of numPlanes, every
\* satellite from index numPlanes * satsPerPlane up stands where the
\* satellite numPlanes * satsPerPlane below it stands, is assigned no
\* pixel and has the area 0.
C27_RemainderIdle ==
    (pc = "done" /\ num_sats % num_planes # 0
                 /\ num_sats \div num_planes >= 1) =>
        LET whole == num_planes * (num_sats \div num_planes)
        IN  \A i \in whole..(num_sats - 1) :
                /\ points_3d[i] = points_3d[i - whole]
                /\ \A p \in Pixels : closest_site[p] # i
                /\ site_area[i] = 0


\* C28 as stated: a mouse press on the play button toggles the play state
\* and, whatever the scroll offset, leaves every slider's value and
\* dragging flag and every checkbox as they were.
C28_PressOnlyToggles ==
    [][(presses' = presses + 1) =>
          /\ is_playing' = ~is_playing
          /\ speed' = speed
          /\ dragging' = dragging
          /\ ui_elements' = ui_elements]_vars


\* A slider's value lies between its least and its greatest value.
Within(slider, min_val, max_val) ==
    min_val <= slider.val /\ slider.val <= max_val

\* C29: whatever the mouse does, every slider's value stays between the
\* slider's least and greatest value, so the pipeline is called with a
\* number of satellites from the least to the greatest of s_sats, which
\* the fields have room for, and a number of planes from 1 to the greatest
\* of s_planes; each plane has a satellite at least, and no position
\* written is NaN.
C29_SlidersInRange ==
    /\ Within(ui_elements.s_inc, 0, QuarterTurn)
    /\ Within(ui_elements.s_sats, MinSats, MaxSats)
    /\ Within(ui_elements.s_planes, MinPlanes, MaxPlanes)
    /\ Within(ui_elements.s_opacity, 0, OpacityMax)
    /\ Within(ui_elements.s_beam, BeamMin, BeamMax)
    /\ Within([val |-> speed], SpeedMin, SpeedMax)
    /\ pc \in {"orbit", "voronoi", "zero", "accum", "done", "render", "shown"} =>
          /\ MinSats <= num_sats
          /\ num_sats <= MaxSats
          /\ MaxSats <= MAX_POINTS
          /\ 1 <= num_planes
          /\ num_planes <= MaxPlanes
          /\ num_sats \div num_planes >= 1
          /\ written \subseteq Sites
          /\ \A i \in written : ~points_3d[i].nan

\* C29 witness: the pipeline has run with the fewest satellites and the
\* most planes, both sliders being dragged.
C29_Witness ==
    /\ pc = "voronoi"
    /\ ui_elements.s_sats.dragging
    /\ ui_elements.s_planes.dragging
    /\ num_sats = MinSats
    /\ num_planes = MaxPlanes
    /\ written = 0..(MinSats - 1)


\* C30: a paused frame leaves the time accumulator alone and nothing else.
\* Playing or not, main goes from the sliders through the whole pipeline to
\* the picture, and the smoothed range changes in the smoothing stage only,
\* once a frame, toward the frame's target.  In a paused frame after the
\* first, with s_inc, s_sats and s_planes as they were, generate_orbits_3d
\* writes the positions that are there already and
\* compute_voronoi_spherical the grid that is there already.
C30_PauseFreezesTimeOnly ==
    [][/\ ~is_playing => time_val' = time_val
       /\ pc = "compute" => pc' = "orbit"
       /\ pc = "orbit" => pc' = "voronoi"
       /\ pc = "voronoi" => pc' = "zero"
       /\ pc = "zero" => pc' = "accum"
       /\ pc = "accum" => pc' = "done"
       /\ pc = "done" =>
             /\ pc' = "render"
             /\ MovesToward(smooth_min, smooth_min', t_min')
             /\ MovesToward(smooth_max, smooth_max', t_max')
       /\ pc = "render" => pc' = "shown"
       /\ pc # "done" => smooth_min' = smooth_min /\ smooth_max' = smooth_max
       /\ frames' # frames => pc = "shown" /\ frames' = frames + 1
       /\ (frames >= 1 /\ ~is_playing /\ ui_elements = StartElements) =>
             /\ pc = "orbit" => points_3d' = points_3d
             /\ pc = "voronoi" => closest_site' = closest_site]_vars

\* C30 witness: the second frame is a paused one after a frame played, its
\* pipeline has run on the positions of the frame before and the smoothed
\* range has left its first value without reaching the target.
C30_Witness ==
    /\ pc = "render"
    /\ frames = 1
    /\ ~is_playing
    /\ presses = 2
    /\ time_val > 0
    /\ written = 0..(StartSats - 1)
    /\ \A p \in Pixels : closest_site[p] \in written
    /\ smooth_max # InitSmoothMax
    /\ smooth_max # t_max
    /\ SmoothStep(SmoothStep(InitSmoothMax, t_max), t_max) = smooth_max

=============================================================================
